---- MODULE Spec2Model ----
(***************************************************************************)
(* LifeLine360 (Harendergit/HealthCare): vitals ingestion, threshold       *)
(* evaluation, SOS session management, alert dispatch and alert lifecycle. *)
(*                                                                         *)
(* Representation.  An optional number (a field that may be undefined) is  *)
(* a sequence of length at most one: <<>> is undefined, <<v>> is v.        *)
(* Temperatures are in tenths of a degree Fahrenheit (96.8 is 968).        *)
(* An alert id is its index in the emergencyAlerts collection; 0 is null.  *)
(***************************************************************************)
EXTENDS Integers, Sequences, FiniteSets, TLC

\* ------------------------------------------------------------------ bounds
MaxAlerts == 2      \* documents the emergencyAlerts collection may hold
MaxReadings == 1    \* documents the vitals collection may hold
MaxSnapshots == 2   \* deliveries of the patient's vitals subscription

\* ------------------------------------------------------------ value sets
Responders == {"r1", "r2"}
TriggerCalls == {1, 2}
Devices == {"d1", "d2"}
VitalsCalls == {1, 2}

Undefined == <<>>
Def(v) == <<v>>
IsDefined(f) == f # Undefined
Val(f) == f[1]
\* JavaScript truthiness of an optional number: undefined and 0 are falsy
Truthy(f) == IsDefined(f) /\ Val(f) # 0

\* --------------------------------------------------- threshold evaluator
DEFAULT_THRESHOLDS ==
  [ heartRate        |-> [min |-> 60, max |-> 100],
    oxygenSaturation |-> [min |-> 90],
    temperature      |-> [min |-> 968, max |-> 1004],
    bloodPressure    |-> [ systolic  |-> [min |-> 90, max |-> 140],
                           diastolic |-> [min |-> 60, max |-> 90] ] ]

\* thresholds a caller may pass instead of the default
CustomThresholds ==
  [ heartRate        |-> [min |-> 50, max |-> 120],
    oxygenSaturation |-> [min |-> 85],
    temperature      |-> [min |-> 965, max |-> 1010],
    bloodPressure    |-> [ systolic  |-> [min |-> 100, max |-> 130],
                           diastolic |-> [min |-> 70, max |-> 80] ] ]

HeartRateOut(reading, thresholds) ==
  /\ IsDefined(reading.heartRate)
  /\ \/ Val(reading.heartRate) < thresholds.heartRate.min
     \/ Val(reading.heartRate) > thresholds.heartRate.max

OxygenOut(reading, thresholds) ==
  /\ IsDefined(reading.oxygenSaturation)
  /\ Val(reading.oxygenSaturation) < thresholds.oxygenSaturation.min

TemperatureOut(reading, thresholds) ==
  /\ IsDefined(reading.temperature)
  /\ \/ Val(reading.temperature) < thresholds.temperature.min
     \/ Val(reading.temperature) > thresholds.temperature.max

BloodPressureOut(reading, thresholds) ==
  /\ reading.bloodPressure # <<>>
  /\ LET systolic  == reading.bloodPressure[1]
         diastolic == reading.bloodPressure[2]
     IN  \/ systolic < thresholds.bloodPressure.systolic.min
         \/ systolic > thresholds.bloodPressure.systolic.max
         \/ diastolic < thresholds.bloodPressure.diastolic.min
         \/ diastolic > thresholds.bloodPressure.diastolic.max

\* the mutant: the upper heart-rate bound taken as exclusive
checkVitalThresholds_GE(reading, thresholds) ==
  LET e0 == FALSE
      e1 == IF /\ IsDefined(reading.heartRate)
               /\ \/ Val(reading.heartRate) < thresholds.heartRate.min
                  \/ Val(reading.heartRate) >= thresholds.heartRate.max
            THEN TRUE ELSE e0
      e2 == IF OxygenOut(reading, thresholds) THEN TRUE ELSE e1
      e3 == IF TemperatureOut(reading, thresholds) THEN TRUE ELSE e2
      e4 == IF BloodPressureOut(reading, thresholds) THEN TRUE ELSE e3
  IN  e4

\* isEmergency starts false and each block may set it
checkVitalThresholds(reading, thresholds) ==
  LET e0 == FALSE
      e1 == IF HeartRateOut(reading, thresholds) THEN TRUE ELSE e0
      e2 == IF OxygenOut(reading, thresholds) THEN TRUE ELSE e1
      e3 == IF TemperatureOut(reading, thresholds) THEN TRUE ELSE e2
      e4 == IF BloodPressureOut(reading, thresholds) THEN TRUE ELSE e3
  IN  e4

\* ---------------------------------------------------- severity classifier
\* the band of one metric: "critical", "warning" or "none"; a falsy metric
\* (undefined or 0) is skipped
\* the mutant: the critical band reaches down to the upper normal bound
HeartRateBand_CriticalFrom100(vitalData) ==
  IF ~Truthy(vitalData.heartRate) THEN "none"
  ELSE IF Val(vitalData.heartRate) < 40 \/ Val(vitalData.heartRate) >= 100
       THEN "critical"
  ELSE IF Val(vitalData.heartRate) < 50 \/ Val(vitalData.heartRate) > 120
       THEN "warning"
  ELSE "none"
HeartRateBand(vitalData) ==
  IF ~Truthy(vitalData.heartRate) THEN "none"
  ELSE IF Val(vitalData.heartRate) < 40 \/ Val(vitalData.heartRate) > 150
       THEN "critical"
  ELSE IF Val(vitalData.heartRate) < 50 \/ Val(vitalData.heartRate) > 120
       THEN "warning"
  ELSE "none"

OxygenBand(vitalData) ==
  IF ~Truthy(vitalData.oxygenSaturation) THEN "none"
  ELSE IF Val(vitalData.oxygenSaturation) < 85 THEN "critical"
  ELSE IF Val(vitalData.oxygenSaturation) < 90 THEN "warning"
  ELSE "none"

TemperatureBand(vitalData) ==
  IF ~Truthy(vitalData.temperature) THEN "none"
  ELSE IF Val(vitalData.temperature) < 950 \/ Val(vitalData.temperature) > 1040
       THEN "critical"
  ELSE IF Val(vitalData.temperature) < 965 \/ Val(vitalData.temperature) > 1010
       THEN "warning"
  ELSE "none"

Bands(vitalData) ==
  << HeartRateBand(vitalData), OxygenBand(vitalData), TemperatureBand(vitalData) >>

CountBand(bands, b) == Cardinality({ i \in DOMAIN bands : bands[i] = b })

calculateVitalsSeverity(vitalData) ==
  LET criticalCount == CountBand(Bands(vitalData), "critical")
      warningCount  == CountBand(Bands(vitalData), "warning")
  IN  IF criticalCount >= 2 THEN "critical"
      ELSE IF criticalCount >= 1 THEN "high"
      ELSE IF warningCount >= 2 THEN "medium"
      ELSE "low"

\* ------------------------------------------------- classifier input space
HeartRates == { Undefined } \cup
  { Def(v) : v \in {0, 39, 40, 49, 50, 59, 60, 100, 101, 120, 121, 150, 151} }
OxygenSaturations == { Undefined } \cup { Def(v) : v \in {0, 84, 85, 89, 90, 98} }
Temperatures == { Undefined } \cup
  { Def(v) : v \in {0, 949, 950, 964, 965, 967, 968, 1004, 1005, 1010, 1011, 1040, 1041} }
BloodPressures ==
  { <<>>, <<120, 80>>, <<89, 80>>, <<90, 60>>, <<140, 90>>, <<141, 80>>,
    <<120, 59>>, <<120, 91>> }

ClassifierReadings ==
  [ heartRate : HeartRates, oxygenSaturation : OxygenSaturations,
    temperature : Temperatures, bloodPressure : BloodPressures ]

ThresholdChoices == { DEFAULT_THRESHOLDS, CustomThresholds }

VARIABLES cReading, cThresholds, cEmergency, cSeverity
cvars == << cReading, cThresholds, cEmergency, cSeverity >>

ClassifierInit ==
  /\ cReading \in ClassifierReadings
  /\ cThresholds \in ThresholdChoices
  /\ cEmergency = Undefined
  /\ cSeverity = "unset"


\* ======================================================================
\* The document store, the notification transport and the patient client
\* ======================================================================
VARIABLES
  alerts,          \* the emergencyAlerts collection; the id is the index
  vitals,          \* the vitals collection; the id is the index
  notifications,   \* set of [alertId, leg]: every notification leg entered
  isSOSActive,     \* EmergencySOSManager.isSOSActive of the patient's client
  currentAlertId,  \* EmergencySOSManager.currentAlertId of the patient's client
  tcall,           \* the triggerSOS calls of the patient's client
  ccall,           \* the cancelSOS call of the patient's client
  rcall,           \* the resolveAlert call made through the patient's manager
  ack,             \* the acknowledge call of each responder
  ingest,          \* the addVitalReading call
  vcall,           \* the triggerVitalsAlert calls started by the subscription
  snapshots,       \* deliveries of the vitals subscription so far
  uiSOSActive,     \* the isSOSActive state of VitalsProvider (patient dashboard)
  ble              \* BluetoothManager and the browser, for each device

sosvars == << alerts, vitals, notifications, isSOSActive, currentAlertId, tcall,
              ccall, rcall, ack, ingest, vcall, snapshots, uiSOSActive >>
svars == << sosvars, ble >>
vars == << svars, cvars, uiSOSActive, ble >>

AlertIds == 1..MaxAlerts
Exists(a) == a \in DOMAIN alerts

\* ------------------------------------------------------- external inputs
\* navigator.geolocation: rejected (unsupported, denied, unavailable, timed
\* out), a position with altitude, heading and speed, or one where some of
\* them are missing and LocationManager stores the key as undefined
LocationOutcomes == {"rejects", "full", "partial"}
\* getMedicalProfile: throws, null (no profile), a profile whose
\* emergencyContacts is [], a profile with emergency contacts
ProfileOutcomes == {"throws", "null", "noContacts", "contacts"}
\* one notification leg: nothing is shown ("failed": isSupported() is false
\* and the leg is skipped, or showNotification throws because permission is
\* not granted or the browser call fails), or the notification is shown
NotifyOutcomes == {"failed", "sent"}

\* the location literal triggerSOS builds drops the undefined entries
CleanLocation(rawLocation) == "clean"
RawLocation(outcome) == IF outcome = "full" THEN "rawFull" ELSE "rawPartial"

\* medicalProfile?.emergencyContacts as a condition: an array, even an empty
\* one, is truthy
HasEmergencyContacts(medicalProfile) == medicalProfile \in {"noContacts", "contacts"}

\* Firestore, created by getFirestore(app) without ignoreUndefinedProperties,
\* rejects a document that holds undefined at any depth
HasUndefinedField(data) ==
  \/ data.location \in {"undefined", "rawPartial"}
  \/ data.medicalProfile = "undefined"
  \/ data.vitalData.timestamp = "undefined"

NoReading ==
  [ heartRate |-> Undefined, oxygenSaturation |-> Undefined,
    temperature |-> Undefined, bloodPressure |-> << >> ]
NoVitalData ==
  [ id |-> 0, patientId |-> "P1", reading |-> NoReading, isEmergency |-> FALSE,
    timestamp |-> "none" ]

\* a write to alert a invalidates the open transactions that read it
Invalidate(a) ==
  [ r \in Responders |->
      IF ack[r].pc = "commit" /\ ack[r].alertId = a
      THEN [ack[r] EXCEPT !.stale = TRUE] ELSE ack[r] ]

NewAlert(data) ==
  [ patientId |-> data.patientId, type |-> data.type, severity |-> data.severity,
    status |-> data.status, location |-> data.location,
    medicalProfile |-> data.medicalProfile, vitalData |-> data.vitalData,
    message |-> data.message, acknowledgedBy |-> "none", responderId |-> "none",
    resolvedAt |-> FALSE,
    alertType |-> "absent", vitalReading |-> NoVitalData ]

\* calls that have not yet written the alert they are going to write
PendingAlertWrites ==
  Cardinality({ c \in TriggerCalls : tcall[c].pc \in {"location", "profile", "addDoc"} })
  + Cardinality({ c \in VitalsCalls : vcall[c].pc \in {"location", "profile", "addDoc"} })
  + (IF ingest.pc = "createAlert" \/ (ingest.pc = "setDoc" /\ ingest.isEmergency)
     THEN 1 ELSE 0)
RoomForAlert == Len(alerts) + PendingAlertWrites < MaxAlerts

IdleTrigger ==
  [ pc |-> "idle", location |-> "undefined", medicalProfile |-> "undefined",
    alertId |-> 0, settled |-> {}, result |-> "none", resultAlertId |-> 0,
    error |-> "none", gatherFailed |-> FALSE, startedActive |-> FALSE ]
IdleCancel == [ pc |-> "idle", alertId |-> 0, reason |-> "", result |-> "none" ]
IdleResolve == [ alertId |-> 0, result |-> "none" ]
IdleAck == [ pc |-> "idle", via |-> "none", alertId |-> 0, stale |-> FALSE,
             result |-> "none" ]
IdleIngest == [ pc |-> "idle", patientId |-> "P1", reading |-> NoReading,
                isEmergency |-> FALSE, docId |-> 0, result |-> "none" ]
IdleVitals ==
  [ pc |-> "idle", vitalData |-> NoVitalData, location |-> "undefined",
    medicalProfile |-> "undefined", severity |-> "low", alertId |-> 0,
    settled |-> {}, result |-> "none", error |-> "none",
    gatherFailed |-> FALSE ]

\* a device the manager has not been connected to
NewDevice ==
  [ phase |-> "new", connected |-> FALSE, gatt |-> FALSE, timer |-> FALSE,
    mapped |-> FALSE, attempt |-> "none", event |-> FALSE ]

SystemInit ==
  /\ alerts = << >>
  /\ vitals = << >>
  /\ notifications = {}
  /\ isSOSActive = FALSE
  /\ currentAlertId = 0
  /\ tcall = [ c \in TriggerCalls |-> IdleTrigger ]
  /\ ccall = IdleCancel
  /\ rcall = IdleResolve
  /\ ack = [ r \in Responders |-> IdleAck ]
  /\ ingest = IdleIngest
  /\ vcall = [ c \in VitalsCalls |-> IdleVitals ]
  /\ snapshots = 0
  /\ uiSOSActive = FALSE
  /\ ble = [ d \in Devices |-> NewDevice ]

\* ------------------------------------------------------ notification legs
\* a leg is entered when its notify function is called; how it settled is
\* kept by the call that awaited it
Enter(alertId, leg) == [ alertId |-> alertId, leg |-> leg ]
Settled(settled, leg, outcome) == settled \cup { << leg, outcome >> }

\* notifyResponders, notifyFamilyMembers and notifyEmergencyContacts catch
\* whatever the notification manager throws: their promise always resolves
notifyResponders_Rethrows(outcome) ==
  IF outcome = "failed" THEN "rejects" ELSE "resolves"
notifyResponders(outcome) == "resolves"
notifyFamilyMembers(outcome) == "resolves"
notifyEmergencyContacts(outcome) == "resolves"

\* ================================================= EmergencySOSManager
\* ------------------------------------------------------------ triggerSOS
\* the mutant: the guard looks for an alert id instead of the flag
AlreadyActive_HasAlertId == isSOSActive /\ currentAlertId # 0
\* if (this.isSOSActive)
AlreadyActive == isSOSActive

\* the guard of triggerSOS found the session active
TriggerSOS_Rejected(c) ==
  /\ tcall[c].pc = "idle"
  /\ AlreadyActive
  /\ tcall' = [tcall EXCEPT ![c] =
       [ IdleTrigger EXCEPT !.pc = "returned", !.result = "alreadyActive",
                            !.resultAlertId = currentAlertId,
                            !.startedActive = isSOSActive ]]
  /\ UNCHANGED << alerts, vitals, notifications, isSOSActive, currentAlertId,
                  ccall, rcall, ack, ingest, vcall, snapshots, cvars, uiSOSActive, ble >>

\* the guard passed: the flag is set before the first await
TriggerSOS_Start(c) ==
  /\ tcall[c].pc = "idle"
  /\ ~AlreadyActive
  /\ RoomForAlert
  /\ isSOSActive' = TRUE
  /\ tcall' = [tcall EXCEPT ![c] = [ IdleTrigger EXCEPT !.pc = "location",
                                        !.startedActive = isSOSActive ]]
  /\ UNCHANGED << alerts, vitals, notifications, currentAlertId,
                  ccall, rcall, ack, ingest, vcall, snapshots, cvars, uiSOSActive, ble >>

\* await locationManager.getCurrentLocation(...) settles
TriggerSOS_Location(c) ==
  /\ tcall[c].pc = "location"
  /\ \E outcome \in LocationOutcomes :
       tcall' = [tcall EXCEPT ![c].pc = "profile",
                              ![c].location =
                                 IF outcome = "rejects" THEN "undefined"
                                 ELSE CleanLocation(RawLocation(outcome)),
                              ![c].gatherFailed = (outcome = "rejects") ]
  /\ UNCHANGED << alerts, vitals, notifications, isSOSActive, currentAlertId,
                  ccall, rcall, ack, ingest, vcall, snapshots, cvars, uiSOSActive, ble >>

\* await getMedicalProfile(patientId) settles
TriggerSOS_Profile(c) ==
  /\ tcall[c].pc = "profile"
  /\ \E outcome \in ProfileOutcomes :
       tcall' = [tcall EXCEPT ![c].pc = "addDoc",
                              ![c].medicalProfile =
                                 IF outcome = "throws" THEN "undefined" ELSE outcome,
                              ![c].gatherFailed =
                                 (tcall[c].gatherFailed \/ outcome = "throws") ]
  /\ UNCHANGED << alerts, vitals, notifications, isSOSActive, currentAlertId,
                  ccall, rcall, ack, ingest, vcall, snapshots, cvars, uiSOSActive, ble >>

SOSAlertData(c) ==
  [ patientId |-> "P1", type |-> "manual_sos", severity |-> "critical",
    status |-> "active", location |-> tcall[c].location,
    medicalProfile |-> tcall[c].medicalProfile, vitalData |-> NoVitalData,
    message |-> "sos" ]

\* the mutant: the catch block leaves the flag set
TriggerSOS_Catch_KeepsFlag(c, error) ==
  /\ isSOSActive' = isSOSActive
  /\ currentAlertId' = 0
  /\ tcall' = [tcall EXCEPT ![c] =
       [ IdleTrigger EXCEPT !.pc = "returned", !.alertId = tcall[c].alertId,
                            !.result = "failed", !.resultAlertId = 0,
                            !.error = error,
                            !.gatherFailed = tcall[c].gatherFailed,
                            !.startedActive = tcall[c].startedActive ]]
\* the catch block of triggerSOS
TriggerSOS_Catch(c, error) ==
  /\ isSOSActive' = FALSE
  /\ currentAlertId' = 0
  /\ tcall' = [tcall EXCEPT ![c] =
       [ IdleTrigger EXCEPT !.pc = "returned", !.alertId = tcall[c].alertId,
                            !.result = "failed", !.resultAlertId = 0,
                            !.error = error,
                            !.gatherFailed = tcall[c].gatherFailed,
                            !.startedActive = tcall[c].startedActive ]]

\* addDoc refuses the document because it holds an undefined field
TriggerSOS_AddDocInvalid(c) ==
  /\ tcall[c].pc = "addDoc"
  /\ HasUndefinedField(SOSAlertData(c))
  /\ TriggerSOS_Catch(c, "invalid-argument")
  /\ UNCHANGED << alerts, vitals, notifications,
                  ccall, rcall, ack, ingest, vcall, snapshots, cvars, uiSOSActive, ble >>

\* the store does not take the write (offline, permission denied)
TriggerSOS_AddDocUnavailable(c) ==
  /\ tcall[c].pc = "addDoc"
  /\ TriggerSOS_Catch(c, "unavailable")
  /\ UNCHANGED << alerts, vitals, notifications,
                  ccall, rcall, ack, ingest, vcall, snapshots, cvars, uiSOSActive, ble >>

\* addDoc resolves: the alert is in the store; currentAlertId is set and
\* notifyResponders is entered
TriggerSOS_AddDoc(c) ==
  /\ tcall[c].pc = "addDoc"
  /\ ~HasUndefinedField(SOSAlertData(c))
  /\ alerts' = Append(alerts, NewAlert(SOSAlertData(c)))
  /\ currentAlertId' = Len(alerts) + 1
  /\ notifications' = notifications \cup { Enter(Len(alerts) + 1, "responder") }
  /\ tcall' = [tcall EXCEPT ![c].pc = "notifyResponders",
                            ![c].alertId = Len(alerts) + 1 ]
  /\ UNCHANGED << vitals, isSOSActive, ccall, rcall, ack, ingest, vcall,
                  snapshots, cvars, uiSOSActive, ble >>

\* this.onSOSCallback?.(fullAlert): the callback VitalsProvider registers
\* sets the provider's isSOSActive state; the provider sets it once more
\* when the response says success
onSOSCallback == TRUE

\* what triggerSOS does after its last notification leg
TriggerSOS_Return(c, settled) ==
  [ IdleTrigger EXCEPT !.pc = "returned", !.alertId = tcall[c].alertId,
                       !.settled = settled,
                       !.result = "success", !.resultAlertId = tcall[c].alertId,
                       !.gatherFailed = tcall[c].gatherFailed,
                       !.startedActive = tcall[c].startedActive ]

\* notifyResponders settles (it never throws); the emergency-contact leg is
\* entered if the profile has emergencyContacts, else the call returns
TriggerSOS_NotifyResponders(c) ==
  /\ tcall[c].pc = "notifyResponders"
  /\ \E outcome \in NotifyOutcomes :
       LET done == Settled(tcall[c].settled, "responder", outcome)
       IN  IF HasEmergencyContacts(tcall[c].medicalProfile)
           THEN /\ notifications' =
                     notifications \cup { Enter(tcall[c].alertId, "contact") }
                /\ tcall' = [tcall EXCEPT ![c].pc = "notifyContacts",
                                          ![c].settled = done ]
                /\ uiSOSActive' = uiSOSActive
           ELSE /\ notifications' = notifications
                /\ tcall' = [tcall EXCEPT ![c] = TriggerSOS_Return(c, done)]
                /\ uiSOSActive' = onSOSCallback
  /\ UNCHANGED << alerts, vitals, isSOSActive, currentAlertId,
                  ccall, rcall, ack, ingest, vcall, snapshots, cvars, ble >>

\* notifyEmergencyContacts settles (it never throws); the call returns
TriggerSOS_NotifyContacts(c) ==
  /\ tcall[c].pc = "notifyContacts"
  /\ \E outcome \in NotifyOutcomes :
       tcall' = [tcall EXCEPT ![c] =
         TriggerSOS_Return(c, Settled(tcall[c].settled, "contact", outcome))]
  /\ uiSOSActive' = onSOSCallback
  /\ UNCHANGED << alerts, vitals, notifications, isSOSActive, currentAlertId,
                  ccall, rcall, ack, ingest, vcall, snapshots, cvars, ble >>

\* a call that passed the guard, from the flag to its return
TriggerSOS_Accepted(c) ==
  \/ TriggerSOS_Start(c)
  \/ TriggerSOS_Location(c)
  \/ TriggerSOS_Profile(c)
  \/ TriggerSOS_AddDocInvalid(c)
  \/ TriggerSOS_AddDocUnavailable(c)
  \/ TriggerSOS_AddDoc(c)
  \/ TriggerSOS_NotifyResponders(c)
  \/ TriggerSOS_NotifyContacts(c)

TriggerSOS(c) == TriggerSOS_Rejected(c) \/ TriggerSOS_Accepted(c)

\* ------------------------------------------------------------- cancelSOS
\* cancelSOS(reason?): no reason (undefined, or the empty string) or a reason
CancelReasons == { "", "false alarm" }
\* reason || 'SOS cancelled by patient'
CancellationMessage(reason) ==
  IF reason = "" THEN "SOS cancelled by patient" ELSE reason

\* the mutant: the guard's return is preceded by the cancellation notification
CancelSOS_Noop_Notifies ==
  /\ ccall.pc \in {"idle", "returned"}
  /\ (~isSOSActive \/ currentAlertId = 0)
  /\ ccall' = [ IdleCancel EXCEPT !.pc = "returned", !.result = "false" ]
  /\ notifications' = notifications \cup { Enter(currentAlertId, "cancel") }
  /\ UNCHANGED << alerts, vitals, isSOSActive, currentAlertId,
                  tcall, rcall, ack, ingest, vcall, snapshots, cvars, uiSOSActive, ble >>
\* the guard of cancelSOS: not active, or no alert id yet
CancelSOS_Noop ==
  /\ ccall.pc \in {"idle", "returned"}
  /\ (~isSOSActive \/ currentAlertId = 0)
  /\ ccall' = [ IdleCancel EXCEPT !.pc = "returned", !.result = "false" ]
  /\ UNCHANGED << alerts, vitals, notifications, isSOSActive, currentAlertId,
                  tcall, rcall, ack, ingest, vcall, snapshots, cvars, uiSOSActive, ble >>

\* the guard passed: updateDoc is issued on the current alert
CancelSOS_Start ==
  /\ ccall.pc \in {"idle", "returned"}
  /\ ~(~isSOSActive \/ currentAlertId = 0)
  /\ \E reason \in CancelReasons :
       ccall' = [ IdleCancel EXCEPT !.pc = "updateDoc", !.alertId = currentAlertId,
                                    !.reason = reason ]
  /\ UNCHANGED << alerts, vitals, notifications, isSOSActive, currentAlertId,
                  tcall, rcall, ack, ingest, vcall, snapshots, cvars, uiSOSActive, ble >>

\* updateDoc rejects: the catch block returns false
CancelSOS_UpdateFails ==
  /\ ccall.pc = "updateDoc"
  /\ ccall' = [ ccall EXCEPT !.pc = "returned", !.result = "false" ]
  /\ UNCHANGED << alerts, vitals, notifications, isSOSActive, currentAlertId,
                  tcall, rcall, ack, ingest, vcall, snapshots, cvars, uiSOSActive, ble >>

\* the mutant: the session keeps its alert id after the update
CancelSOS_Update_KeepsAlertId ==
  /\ ccall.pc = "updateDoc"
  /\ alerts' = [alerts EXCEPT ![ccall.alertId].status = "resolved",
                              ![ccall.alertId].resolvedAt = TRUE,
                              ![ccall.alertId].message =
                                 CancellationMessage(ccall.reason) ]
  /\ ack' = Invalidate(ccall.alertId)
  /\ isSOSActive' = FALSE
  /\ notifications' = notifications \cup { Enter(ccall.alertId, "cancel") }
  /\ ccall' = [ ccall EXCEPT !.pc = "notify" ]
  /\ UNCHANGED << vitals, currentAlertId, tcall, rcall, ingest, vcall,
                  snapshots, cvars, uiSOSActive, ble >>
\* updateDoc resolves: the alert is resolved with the cancellation message,
\* the session is cleared and the cancellation notification is entered
CancelSOS_Update ==
  /\ ccall.pc = "updateDoc"
  /\ alerts' = [alerts EXCEPT ![ccall.alertId].status = "resolved",
                              ![ccall.alertId].resolvedAt = TRUE,
                              ![ccall.alertId].message =
                                 CancellationMessage(ccall.reason) ]
  /\ ack' = Invalidate(ccall.alertId)
  /\ isSOSActive' = FALSE
  /\ currentAlertId' = 0
  /\ notifications' = notifications \cup { Enter(ccall.alertId, "cancel") }
  /\ ccall' = [ ccall EXCEPT !.pc = "notify" ]
  /\ UNCHANGED << vitals, tcall, rcall, ingest, vcall, snapshots, cvars, uiSOSActive, ble >>

\* showNotification settles: shown (return true) or thrown (return false);
\* VitalsProvider.cancelSOS, the caller, clears its state on true
CancelSOS_Notify ==
  /\ ccall.pc = "notify"
  /\ \E outcome \in {"failed", "sent"} :
       /\ ccall' = [ ccall EXCEPT !.pc = "returned",
                      !.result = IF outcome = "sent" THEN "true" ELSE "false" ]
       /\ uiSOSActive' = IF outcome = "sent" THEN FALSE ELSE uiSOSActive
  /\ UNCHANGED << alerts, vitals, notifications, isSOSActive, currentAlertId,
                  tcall, rcall, ack, ingest, vcall, snapshots, cvars, ble >>

CancelSOS ==
  \/ CancelSOS_Noop
  \/ CancelSOS_Start
  \/ CancelSOS_UpdateFails
  \/ CancelSOS_Update
  \/ CancelSOS_Notify

\* ---------------------------------------------------------- resolveAlert
\* resolveAlert through the patient's own manager; updateDoc on a document
\* that does not exist rejects and the call returns false
ResolveAlert_NotFound(a) ==
  /\ ~Exists(a)
  /\ rcall' = [ alertId |-> a, result |-> "false" ]
  /\ UNCHANGED << alerts, vitals, notifications, isSOSActive, currentAlertId,
                  tcall, ccall, ack, ingest, vcall, snapshots, cvars, uiSOSActive, ble >>

ResolveAlert(a) ==
  /\ Exists(a)
  /\ alerts' = [alerts EXCEPT ![a].status = "resolved", ![a].resolvedAt = TRUE,
                              ![a].message = "resolution" ]
  /\ ack' = Invalidate(a)
  /\ IF currentAlertId = a
     THEN isSOSActive' = FALSE /\ currentAlertId' = 0
     ELSE UNCHANGED << isSOSActive, currentAlertId >>
  /\ rcall' = [ alertId |-> a, result |-> "true" ]
  /\ UNCHANGED << vitals, notifications, tcall, ccall, ingest, vcall,
                  snapshots, cvars, uiSOSActive, ble >>

\* ================================================= the responder's client
\* Its EmergencySOSManager is another instance (one per process); no SOS is
\* triggered there, so its currentAlertId is null throughout.

\* resolveAlert through the responder's manager
ResponderResolve(a) ==
  /\ Exists(a)
  /\ alerts' = [alerts EXCEPT ![a].status = "resolved", ![a].resolvedAt = TRUE,
                              ![a].message = "resolution" ]
  /\ ack' = Invalidate(a)
  /\ UNCHANGED << vitals, notifications, isSOSActive, currentAlertId,
                  tcall, ccall, rcall, ingest, vcall, snapshots, cvars, uiSOSActive, ble >>

\* EmergencySOSManager.startResponse
StartResponse(r, a) ==
  /\ Exists(a)
  /\ alerts' = [alerts EXCEPT ![a].status = "responding", ![a].responderId = r ]
  /\ ack' = Invalidate(a)
  /\ UNCHANGED << vitals, notifications, isSOSActive, currentAlertId,
                  tcall, ccall, rcall, ingest, vcall, snapshots, cvars, uiSOSActive, ble >>

\* EmergencySOSManager.acknowledgeAlert: an unconditional updateDoc
ManagerAcknowledge(r, a) ==
  /\ ack[r].pc = "idle"
  /\ IF Exists(a)
     THEN /\ alerts' = [alerts EXCEPT ![a].status = "acknowledged",
                                      ![a].acknowledgedBy = r ]
          /\ ack' = [ Invalidate(a) EXCEPT ![r] =
                        [ IdleAck EXCEPT !.pc = "returned", !.via = "manager",
                                         !.alertId = a, !.result = "success" ]]
     ELSE /\ alerts' = alerts
          /\ ack' = [ ack EXCEPT ![r] =
                        [ IdleAck EXCEPT !.pc = "returned", !.via = "manager",
                                         !.alertId = a, !.result = "failed" ]]
  /\ UNCHANGED << vitals, notifications, isSOSActive, currentAlertId,
                  tcall, ccall, rcall, ingest, vcall, snapshots, cvars, uiSOSActive, ble >>

\* firestore.ts acknowledgeAlert: the update function of the transaction
\* reads the alert and throws, or stages the update
TransactionRead(r, a) ==
  IF ~Exists(a)
  THEN [ IdleAck EXCEPT !.pc = "returned", !.via = "transaction", !.alertId = a,
                        !.result = "NotFound" ]
  ELSE IF alerts[a].acknowledgedBy # "none"
  THEN [ IdleAck EXCEPT !.pc = "returned", !.via = "transaction", !.alertId = a,
                        !.result = "AlreadyAcknowledged" ]
  ELSE [ IdleAck EXCEPT !.pc = "commit", !.via = "transaction", !.alertId = a ]

AcknowledgeAlert_Begin(r, a) ==
  /\ ack[r].pc = "idle"
  /\ ack' = [ ack EXCEPT ![r] = TransactionRead(r, a) ]
  /\ UNCHANGED << alerts, vitals, notifications, isSOSActive, currentAlertId,
                  tcall, ccall, rcall, ingest, vcall, snapshots, cvars, uiSOSActive, ble >>

\* the commit is refused because the alert was written since it was read:
\* runTransaction runs the update function again
AcknowledgeAlert_Retry(r) ==
  /\ ack[r].pc = "commit"
  /\ ack[r].stale
  /\ ack' = [ ack EXCEPT ![r] = TransactionRead(r, ack[r].alertId) ]
  /\ UNCHANGED << alerts, vitals, notifications, isSOSActive, currentAlertId,
                  tcall, ccall, rcall, ingest, vcall, snapshots, cvars, uiSOSActive, ble >>

AcknowledgeAlert_Commit(r) ==
  /\ ack[r].pc = "commit"
  /\ ~ack[r].stale
  /\ alerts' = [alerts EXCEPT ![ack[r].alertId].status = "acknowledged",
                              ![ack[r].alertId].acknowledgedBy = r ]
  /\ ack' = [ Invalidate(ack[r].alertId) EXCEPT ![r] =
                [ ack[r] EXCEPT !.pc = "returned", !.result = "success" ]]
  /\ UNCHANGED << vitals, notifications, isSOSActive, currentAlertId,
                  tcall, ccall, rcall, ingest, vcall, snapshots, cvars, uiSOSActive, ble >>

Lifecycle ==
  \/ \E a \in AlertIds : ResolveAlert_NotFound(a)
  \/ \E a \in AlertIds : ResolveAlert(a)
  \/ \E a \in AlertIds : ResponderResolve(a)
  \/ \E r \in Responders, a \in AlertIds : StartResponse(r, a)
  \/ \E r \in Responders, a \in AlertIds : ManagerAcknowledge(r, a)
  \/ \E r \in Responders, a \in AlertIds : AcknowledgeAlert_Begin(r, a)
  \/ \E r \in Responders : AcknowledgeAlert_Retry(r)
  \/ \E r \in Responders : AcknowledgeAlert_Commit(r)

\* ============================================== vitals ingestion pipeline
Reading(hr, spo2) ==
  [ heartRate |-> hr, oxygenSaturation |-> spo2, temperature |-> Undefined,
    bloodPressure |-> << >> ]
\* a normal reading, one metric in the critical band, two in the critical band
IngestReadings ==
  { Reading(Def(80), Undefined), Reading(Def(180), Undefined),
    Reading(Def(160), Def(80)) }

\* the patientId of an ingested reading: the patient's, none (the property
\* is missing, null or the empty string), or the property set to undefined
PatientRefs == { "P1", "", "undefined" }

\* ------------------------------------------- addVitalReading (vitals.ts)
AddVitalReading_Start(reading, patientId) ==
  /\ ingest.pc \in {"idle", "returned"}
  /\ Len(vitals) < MaxReadings
  /\ checkVitalThresholds(reading, DEFAULT_THRESHOLDS) => RoomForAlert
  /\ ingest' = [ IdleIngest EXCEPT !.pc = "setDoc", !.reading = reading,
                   !.patientId = patientId,
                   !.isEmergency = checkVitalThresholds(reading, DEFAULT_THRESHOLDS),
                   !.docId = Len(vitals) + 1 ]
  /\ UNCHANGED << alerts, vitals, notifications, isSOSActive, currentAlertId,
                  tcall, ccall, rcall, ack, vcall, snapshots, cvars, uiSOSActive, ble >>

\* addVitalToFirestore rejects: addVitalReading rethrows
AddVitalReading_SetDocFails ==
  /\ ingest.pc = "setDoc"
  /\ ingest' = [ ingest EXCEPT !.pc = "returned", !.result = "throws" ]
  /\ UNCHANGED << alerts, vitals, notifications, isSOSActive, currentAlertId,
                  tcall, ccall, rcall, ack, vcall, snapshots, cvars, uiSOSActive, ble >>

\* the reading is persisted (setDoc refuses a field set to undefined); an
\* emergency reading goes on to createEmergencyAlert
AddVitalReading_SetDoc ==
  /\ ingest.pc = "setDoc"
  /\ ingest.patientId # "undefined"
  /\ vitals' = Append(vitals, [ id |-> ingest.docId, patientId |-> ingest.patientId,
                                reading |-> ingest.reading,
                                isEmergency |-> ingest.isEmergency,
                                timestamp |-> "set" ])
  /\ ingest' = IF ingest.isEmergency
               THEN [ ingest EXCEPT !.pc = "createAlert" ]
               ELSE [ ingest EXCEPT !.pc = "returned", !.result = "ok" ]
  /\ UNCHANGED << alerts, notifications, isSOSActive, currentAlertId,
                  tcall, ccall, rcall, ack, vcall, snapshots, cvars, uiSOSActive, ble >>

\* createEmergencyAlert rejects: addVitalReading rethrows
AddVitalReading_CreateAlertFails ==
  /\ ingest.pc = "createAlert"
  /\ ingest' = [ ingest EXCEPT !.pc = "returned", !.result = "throws" ]
  /\ UNCHANGED << alerts, vitals, notifications, isSOSActive, currentAlertId,
                  tcall, ccall, rcall, ack, vcall, snapshots, cvars, uiSOSActive, ble >>

\* createEmergencyAlert (firestore.ts): the document it writes
createEmergencyAlert(alertData) ==
  [ patientId |-> alertData.patientId, type |-> "absent", severity |-> "absent",
    status |-> "active", location |-> "absent", medicalProfile |-> "absent",
    vitalData |-> NoVitalData, message |-> "absent", acknowledgedBy |-> "none",
    responderId |-> "none", resolvedAt |-> FALSE,
    alertType |-> alertData.alertType, vitalReading |-> alertData.vitalReading ]

\* the vitalReading object of the alert carries no id in the code; the id
\* kept here records which persisted reading the alert was created for
AddVitalReading_CreateAlert ==
  /\ ingest.pc = "createAlert"
  /\ alerts' = Append(alerts, createEmergencyAlert(
         [ patientId |-> ingest.patientId, alertType |-> "vital_threshold_exceeded",
           vitalReading |-> [ id |-> ingest.docId, patientId |-> ingest.patientId,
                              reading |-> ingest.reading,
                              isEmergency |-> ingest.isEmergency,
                              timestamp |-> "set" ] ]))
  /\ ingest' = [ ingest EXCEPT !.pc = "returned", !.result = "ok" ]
  /\ UNCHANGED << vitals, notifications, isSOSActive, currentAlertId,
                  tcall, ccall, rcall, ack, vcall, snapshots, cvars, uiSOSActive, ble >>

AddVitalReading ==
  \/ \E reading \in IngestReadings, patientId \in PatientRefs :
       AddVitalReading_Start(reading, patientId)
  \/ AddVitalReading_SetDocFails
  \/ AddVitalReading_SetDoc
  \/ AddVitalReading_CreateAlertFails
  \/ AddVitalReading_CreateAlert

\* ------------------------- the patient's vitals subscription (VitalsContext)
\* newVitals[0] of a snapshot: the newest persisted reading, or, while this
\* client's own setDoc is pending, the pending reading, whose server
\* timestamp is not yet known (timestamp?.toDate() is undefined)
\* where('patientId', '==', patientId): the readings of the subscribed patient
PatientVitals == SelectSeq(vitals, LAMBDA v : v.patientId = "P1")
ServerLatest == PatientVitals[Len(PatientVitals)]
LocalLatest ==
  [ id |-> ingest.docId, patientId |-> ingest.patientId, reading |-> ingest.reading,
    isEmergency |-> ingest.isEmergency, timestamp |-> "undefined" ]

FreeVitalsCalls == { c \in VitalsCalls : vcall[c].pc \in {"idle", "returned"} }

\* the subscription callback: an emergency latest reading starts
\* triggerVitalsAlert, which is not awaited
OnSnapshot(latest) ==
  /\ snapshots < MaxSnapshots
  /\ snapshots' = snapshots + 1
  /\ IF latest.isEmergency
     THEN /\ RoomForAlert
          /\ FreeVitalsCalls # {}
          /\ LET c == CHOOSE x \in FreeVitalsCalls :
                        \A y \in FreeVitalsCalls : x <= y
             IN  vcall' = [vcall EXCEPT ![c] =
                   [ IdleVitals EXCEPT !.pc = "location", !.vitalData = latest ]]
     ELSE vcall' = vcall
  /\ UNCHANGED << alerts, vitals, notifications, isSOSActive, currentAlertId,
                  tcall, ccall, rcall, ack, ingest, cvars, uiSOSActive, ble >>

Snapshot_Server ==
  /\ Len(PatientVitals) > 0
  /\ OnSnapshot(ServerLatest)

Snapshot_Local ==
  /\ ingest.pc = "setDoc"
  /\ ingest.patientId = "P1"
  /\ OnSnapshot(LocalLatest)

\* ------------------------------------- EmergencySOSManager.triggerVitalsAlert
TriggerVitalsAlert_Location(c) ==
  /\ vcall[c].pc = "location"
  /\ \E outcome \in LocationOutcomes :
       vcall' = [vcall EXCEPT ![c].pc = "profile",
                              ![c].location =
                                 IF outcome = "rejects" THEN "undefined"
                                 ELSE RawLocation(outcome),
                              ![c].gatherFailed = (outcome = "rejects") ]
  /\ UNCHANGED << alerts, vitals, notifications, isSOSActive, currentAlertId,
                  tcall, ccall, rcall, ack, ingest, snapshots, cvars, uiSOSActive, ble >>

TriggerVitalsAlert_Profile(c) ==
  /\ vcall[c].pc = "profile"
  /\ \E outcome \in ProfileOutcomes :
       vcall' = [vcall EXCEPT ![c].pc = "addDoc",
                              ![c].medicalProfile =
                                 IF outcome = "throws" THEN "undefined" ELSE outcome,
                              ![c].gatherFailed =
                                 (vcall[c].gatherFailed \/ outcome = "throws"),
                              ![c].severity =
                                 calculateVitalsSeverity(vcall[c].vitalData.reading) ]
  /\ UNCHANGED << alerts, vitals, notifications, isSOSActive, currentAlertId,
                  tcall, ccall, rcall, ack, ingest, snapshots, cvars, uiSOSActive, ble >>

VitalsAlertData(c) ==
  [ patientId |-> "P1", type |-> "vitals_critical", severity |-> vcall[c].severity,
    status |-> "active", location |-> vcall[c].location,
    medicalProfile |-> vcall[c].medicalProfile, vitalData |-> vcall[c].vitalData,
    message |-> "vitals" ]

\* what triggerVitalsAlert leaves when it returns or throws
TriggerVitalsAlert_End(c, settled, result, error) ==
  [ IdleVitals EXCEPT !.pc = "returned", !.alertId = vcall[c].alertId,
                      !.settled = settled, !.result = result, !.error = error,
                      !.gatherFailed = vcall[c].gatherFailed ]

\* addDoc refuses the document because it holds an undefined field: the
\* catch block rethrows
TriggerVitalsAlert_AddDocInvalid(c) ==
  /\ vcall[c].pc = "addDoc"
  /\ HasUndefinedField(VitalsAlertData(c))
  /\ vcall' = [vcall EXCEPT ![c] =
                  TriggerVitalsAlert_End(c, {}, "throws", "invalid-argument")]
  /\ UNCHANGED << alerts, vitals, notifications, isSOSActive, currentAlertId,
                  tcall, ccall, rcall, ack, ingest, snapshots, cvars, uiSOSActive, ble >>

\* the store does not take the write: the catch block rethrows
TriggerVitalsAlert_AddDocUnavailable(c) ==
  /\ vcall[c].pc = "addDoc"
  /\ vcall' = [vcall EXCEPT ![c] =
                  TriggerVitalsAlert_End(c, {}, "throws", "unavailable")]
  /\ UNCHANGED << alerts, vitals, notifications, isSOSActive, currentAlertId,
                  tcall, ccall, rcall, ack, ingest, snapshots, cvars, uiSOSActive, ble >>

\* who is notified first once the alert is persisted
NotifiesResponders(severity) == severity = "critical"

TriggerVitalsAlert_AddDoc(c) ==
  /\ vcall[c].pc = "addDoc"
  /\ ~HasUndefinedField(VitalsAlertData(c))
  /\ alerts' = Append(alerts, NewAlert(VitalsAlertData(c)))
  /\ IF NotifiesResponders(vcall[c].severity)
     THEN /\ notifications' = notifications \cup { Enter(Len(alerts) + 1, "responder") }
          /\ vcall' = [vcall EXCEPT ![c].pc = "notifyResponders",
                                    ![c].alertId = Len(alerts) + 1 ]
     ELSE /\ notifications' = notifications \cup { Enter(Len(alerts) + 1, "family") }
          /\ vcall' = [vcall EXCEPT ![c].pc = "notifyFamily",
                                    ![c].alertId = Len(alerts) + 1 ]
  /\ UNCHANGED << vitals, isSOSActive, currentAlertId,
                  tcall, ccall, rcall, ack, ingest, snapshots, cvars, uiSOSActive, ble >>

\* notifyResponders settles: notifyFamilyMembers is entered; were it to
\* reject, the catch block of triggerVitalsAlert would rethrow
TriggerVitalsAlert_NotifyResponders(c) ==
  /\ vcall[c].pc = "notifyResponders"
  /\ \E outcome \in NotifyOutcomes :
       LET done == Settled(vcall[c].settled, "responder", outcome)
       IN  IF notifyResponders(outcome) = "resolves"
           THEN /\ notifications' =
                     notifications \cup { Enter(vcall[c].alertId, "family") }
                /\ vcall' = [vcall EXCEPT ![c].pc = "notifyFamily",
                                          ![c].settled = done ]
           ELSE /\ notifications' = notifications
                /\ vcall' = [vcall EXCEPT ![c] =
                                TriggerVitalsAlert_End(c, done, "throws", "notify")]
  /\ UNCHANGED << alerts, vitals, isSOSActive, currentAlertId,
                  tcall, ccall, rcall, ack, ingest, snapshots, cvars, uiSOSActive, ble >>

\* notifyFamilyMembers settles: the alert id is returned
TriggerVitalsAlert_NotifyFamily(c) ==
  /\ vcall[c].pc = "notifyFamily"
  /\ \E outcome \in NotifyOutcomes :
       vcall' = [vcall EXCEPT ![c] = TriggerVitalsAlert_End(c,
                   Settled(vcall[c].settled, "family", outcome),
                   IF notifyFamilyMembers(outcome) = "resolves"
                   THEN "success" ELSE "throws",
                   IF notifyFamilyMembers(outcome) = "resolves"
                   THEN "none" ELSE "notify")]
  /\ UNCHANGED << alerts, vitals, notifications, isSOSActive, currentAlertId,
                  tcall, ccall, rcall, ack, ingest, snapshots, cvars, uiSOSActive, ble >>

TriggerVitalsAlert(c) ==
  \/ TriggerVitalsAlert_Location(c)
  \/ TriggerVitalsAlert_Profile(c)
  \/ TriggerVitalsAlert_AddDocInvalid(c)
  \/ TriggerVitalsAlert_AddDocUnavailable(c)
  \/ TriggerVitalsAlert_AddDoc(c)
  \/ TriggerVitalsAlert_NotifyResponders(c)
  \/ TriggerVitalsAlert_NotifyFamily(c)

\* ===================================================== BluetoothManager
\* For a device d: phase tells whether connectedDevices holds d ("paired")
\* or disconnectDevice(d) has removed it ("disconnected"); connected is
\* deviceInfo.connected; gatt is device.gatt.connected; timer tells whether a
\* reconnection interval of d is running; mapped whether reconnectIntervals
\* holds one for d; attempt whether a timer callback is awaiting
\* gatt.connect(); event whether a gattserverdisconnected event is queued.

\* connectHeartRateMonitor succeeds on d
ConnectHeartRateMonitor(d) ==
  /\ ble[d].phase = "new"
  /\ ble' = [ble EXCEPT ![d].phase = "paired", ![d].connected = TRUE,
                        ![d].gatt = TRUE ]
  /\ UNCHANGED << sosvars, cvars >>

\* the browser loses the link to d and queues gattserverdisconnected
LinkLost(d) ==
  /\ ble[d].gatt
  /\ ble' = [ble EXCEPT ![d].gatt = FALSE, ![d].event = TRUE ]
  /\ UNCHANGED << sosvars, cvars >>

\* startReconnection(d), reached with d in connectedDevices: the interval in
\* reconnectIntervals is cleared and a new one is set and recorded
startReconnection(dev) == [ dev EXCEPT !.timer = TRUE, !.mapped = TRUE ]

\* handleDeviceDisconnect(d)
handleDeviceDisconnect(dev) ==
  IF dev.phase = "paired"
  THEN startReconnection([ dev EXCEPT !.connected = FALSE ])
  ELSE dev

\* the queued gattserverdisconnected event is delivered to the listener
GattServerDisconnected(d) ==
  /\ ble[d].event
  /\ ble' = [ble EXCEPT ![d] = handleDeviceDisconnect([ ble[d] EXCEPT !.event = FALSE ])]
  /\ UNCHANGED << sosvars, cvars >>

\* the interval callback starts: d is found connected and the interval is
\* cleared, or gatt.connect() is awaited
ReconnectTick(d) ==
  /\ ble[d].timer
  /\ ble[d].attempt = "none"
  /\ ble' = IF ble[d].gatt
            THEN [ble EXCEPT ![d].timer = FALSE, ![d].mapped = FALSE,
                             ![d].connected = TRUE ]
            ELSE [ble EXCEPT ![d].attempt = "connecting" ]
  /\ UNCHANGED << sosvars, cvars >>

\* gatt.connect() of the callback resolves: d is connected again and the
\* callback clears its interval
ReconnectSucceeds(d) ==
  /\ ble[d].attempt = "connecting"
  /\ ble' = [ble EXCEPT ![d].attempt = "none", ![d].gatt = TRUE,
                        ![d].connected = TRUE, ![d].timer = FALSE,
                        ![d].mapped = FALSE ]
  /\ UNCHANGED << sosvars, cvars >>

\* gatt.connect() of the callback rejects: the catch block logs
ReconnectFails(d) ==
  /\ ble[d].attempt = "connecting"
  /\ ble' = [ble EXCEPT ![d].attempt = "none" ]
  /\ UNCHANGED << sosvars, cvars >>

\* how the browser delivers gattserverdisconnected for server.disconnect():
\* to the listener before disconnect() returns, or as a queued event
EventDeliveries == { "during", "after" }

\* disconnectDevice(d) with d in connectedDevices: the recorded interval is
\* cleared, a connected server is disconnected, d is removed
DisconnectDevice(d, delivery) ==
  /\ ble[d].phase = "paired"
  /\ LET cleared == [ ble[d] EXCEPT !.timer = ble[d].timer /\ ~ble[d].mapped,
                                    !.mapped = FALSE ]
         dropped == IF ~cleared.gatt THEN cleared
                    ELSE IF delivery = "during"
                    THEN handleDeviceDisconnect([ cleared EXCEPT !.gatt = FALSE ])
                    ELSE [ cleared EXCEPT !.gatt = FALSE, !.event = TRUE ]
     IN  ble' = [ble EXCEPT ![d] = [ dropped EXCEPT !.connected = FALSE,
                                                    !.phase = "disconnected" ]]
  /\ UNCHANGED << sosvars, cvars >>

Bluetooth(d) ==
  \/ ConnectHeartRateMonitor(d)
  \/ LinkLost(d)
  \/ GattServerDisconnected(d)
  \/ ReconnectTick(d)
  \/ ReconnectSucceeds(d)
  \/ ReconnectFails(d)
  \/ \E delivery \in EventDeliveries : DisconnectDevice(d, delivery)

\* ========================================================= specifications
\* the classifiers applied to one reading
Classify ==
  /\ cEmergency = Undefined
  /\ cEmergency' = Def(checkVitalThresholds(cReading, cThresholds))
  /\ UNCHANGED << cReading, cThresholds, cSeverity, svars >>

Severity ==
  /\ cSeverity = "unset"
  /\ cSeverity' = calculateVitalsSeverity(cReading)
  /\ UNCHANGED << cReading, cThresholds, cEmergency, svars >>

ClassifierNext == Classify \/ Severity
\* any reading and either thresholds, nothing classified yet, the rest at rest
ClassifierStart == ClassifierInit /\ SystemInit
ClassifierSpec == ClassifierStart /\ [][ClassifierNext]_vars

IdleClassifier ==
  /\ cReading = NoReading
  /\ cThresholds = DEFAULT_THRESHOLDS
  /\ cEmergency = Undefined
  /\ cSeverity = "unset"

Init == SystemInit /\ IdleClassifier

\* the patient's client is reloaded: the module is evaluated again and the
\* exported manager is a new EmergencySOSManager whose fields hold their
\* initialisers; nothing is read from the store.  Taken between calls of the
\* patient's client, which end with the page that ran them.
Restart ==
  /\ \A c \in TriggerCalls : tcall[c].pc \in {"idle", "returned"}
  /\ ccall.pc \in {"idle", "returned"}
  /\ isSOSActive' = FALSE
  /\ currentAlertId' = 0
  /\ UNCHANGED << alerts, notifications, tcall, ccall >>
  /\ uiSOSActive' = FALSE
  /\ UNCHANGED << rcall, ack, vitals, ingest, snapshots, vcall, cvars, ble >>

\* the SOS session of the patient's client and whoever resolves its alert
SessionNext ==
  \/ \E c \in TriggerCalls : TriggerSOS(c)
  \/ CancelSOS
  \/ \E a \in AlertIds : ResolveAlert_NotFound(a)
  \/ \E a \in AlertIds : ResolveAlert(a)
  \/ \E a \in AlertIds : ResponderResolve(a)

\* one alert raised by the patient and the responders acting on it
LifecycleNext ==
  \/ TriggerSOS_Accepted(1)
  \/ CancelSOS
  \/ Lifecycle

\* ingestion, the vitals subscription and the alerts it raises
VitalsNext ==
  \/ AddVitalReading
  \/ Snapshot_Server
  \/ Snapshot_Local
  \/ \E c \in VitalsCalls : TriggerVitalsAlert(c)

\* both dispatch paths of the manager
DispatchNext ==
  \/ TriggerSOS_Accepted(1)
  \/ VitalsNext

\* the patient's SOS calls across reloads of the client
RecoveryNext ==
  \/ \E c \in TriggerCalls : TriggerSOS(c)
  \/ Restart

\* ------------------------------------------- the dashboard's SOS button
\* handleSOS: the button cancels when the provider's state is true and
\* triggers when it is false
HandleSOS_Trigger(c) ==
  /\ ~uiSOSActive
  /\ TriggerSOS_Rejected(c) \/ TriggerSOS_Start(c)

HandleSOS_Cancel ==
  /\ uiSOSActive
  /\ CancelSOS_Noop \/ CancelSOS_Start

\* the patient's dashboard: the SOS button starts the calls, their awaits
\* settle, and the alert may be resolved through the manager
DashboardNext ==
  \/ \E c \in TriggerCalls : HandleSOS_Trigger(c)
  \/ \E c \in TriggerCalls : TriggerSOS_Location(c)
  \/ \E c \in TriggerCalls : TriggerSOS_Profile(c)
  \/ \E c \in TriggerCalls : TriggerSOS_AddDocInvalid(c)
  \/ \E c \in TriggerCalls : TriggerSOS_AddDocUnavailable(c)
  \/ \E c \in TriggerCalls : TriggerSOS_AddDoc(c)
  \/ \E c \in TriggerCalls : TriggerSOS_NotifyResponders(c)
  \/ \E c \in TriggerCalls : TriggerSOS_NotifyContacts(c)
  \/ HandleSOS_Cancel
  \/ CancelSOS_UpdateFails
  \/ CancelSOS_Update
  \/ CancelSOS_Notify
  \/ \E a \in AlertIds : ResolveAlert(a)

\* the devices of the patient's client
BluetoothNext == \E d \in Devices : Bluetooth(d)

Next ==
  \/ SessionNext \/ LifecycleNext \/ VitalsNext \/ Restart \/ DashboardNext
  \/ BluetoothNext

Spec == Init /\ [][Next]_vars
SessionSpec == Init /\ [][SessionNext]_vars
LifecycleSpec == Init /\ [][LifecycleNext]_vars
VitalsSpec == Init /\ [][VitalsNext]_vars
DispatchSpec == Init /\ [][DispatchNext]_vars
RecoverySpec == Init /\ [][RecoveryNext]_vars
DashboardSpec == Init /\ [][DashboardNext]_vars
BluetoothSpec == Init /\ [][BluetoothNext]_vars

\* ---------------------------------------------------------------- fairness
\* getCurrentPosition is called with a timeout option (5000 ms in triggerSOS,
\* 3000 ms in triggerVitalsAlert): the location gather settles
LocationSettles ==
  /\ WF_vars(TriggerSOS_Location(1))
  /\ \A c \in VitalsCalls : WF_vars(TriggerVitalsAlert_Location(c))
\* getDocs of getMedicalProfile settles; the code sets no bound on it
ProfileSettles ==
  /\ WF_vars(TriggerSOS_Profile(1))
  /\ \A c \in VitalsCalls : WF_vars(TriggerVitalsAlert_Profile(c))
\* addDoc settles: the store acknowledges or refuses the write
StoreSettles ==
  /\ WF_vars(\/ TriggerSOS_AddDocInvalid(1)
             \/ TriggerSOS_AddDocUnavailable(1)
             \/ TriggerSOS_AddDoc(1))
  /\ \A c \in VitalsCalls :
       WF_vars(\/ TriggerVitalsAlert_AddDocInvalid(c)
               \/ TriggerVitalsAlert_AddDocUnavailable(c)
               \/ TriggerVitalsAlert_AddDoc(c))
\* the promise of showNotification settles; the code sets no bound on it
NotificationsSettle ==
  /\ WF_vars(TriggerSOS_NotifyResponders(1))
  /\ WF_vars(TriggerSOS_NotifyContacts(1))
  /\ \A c \in VitalsCalls :
       /\ WF_vars(TriggerVitalsAlert_NotifyResponders(c))
       /\ WF_vars(TriggerVitalsAlert_NotifyFamily(c))

\* dispatch when a notification channel may never answer
SlowChannelSpec ==
  DispatchSpec /\ LocationSettles /\ ProfileSettles /\ StoreSettles
\* dispatch when the profile lookup may never answer
SlowLookupSpec ==
  DispatchSpec /\ LocationSettles /\ StoreSettles /\ NotificationsSettle

\* ================================================================ properties
\* ------------------------------------------------------------ classifiers
\* C8: checkVitalThresholds answers true exactly when some present field is
\* outside its closed normal range: heart rate below min or above max, oxygen
\* saturation below min, temperature below min or above max, either blood
\* pressure component below its min or above its max.  A value equal to a
\* bound, an absent field and a reading without fields are normal.
C8_EmergencyIffOutOfRange ==
  cEmergency # Undefined =>
    LET r == cReading
        t == cThresholds
        hr   == Len(r.heartRate) = 1 /\
                  (r.heartRate[1] < t.heartRate.min \/ r.heartRate[1] > t.heartRate.max)
        spo2 == Len(r.oxygenSaturation) = 1 /\
                  r.oxygenSaturation[1] < t.oxygenSaturation.min
        temp == Len(r.temperature) = 1 /\
                  (r.temperature[1] < t.temperature.min \/
                   r.temperature[1] > t.temperature.max)
        bp   == Len(r.bloodPressure) = 2 /\
                  ~ /\ r.bloodPressure[1] \in
                         t.bloodPressure.systolic.min .. t.bloodPressure.systolic.max
                    /\ r.bloodPressure[2] \in
                         t.bloodPressure.diastolic.min .. t.bloodPressure.diastolic.max
    IN  /\ cEmergency[1] = (hr \/ spo2 \/ temp \/ bp)
        /\ (r.heartRate \in {<<>>, <<t.heartRate.min>>, <<t.heartRate.max>>} /\
            r.oxygenSaturation \in {<<>>, <<t.oxygenSaturation.min>>} /\
            r.temperature \in {<<>>, <<t.temperature.min>>, <<t.temperature.max>>} /\
            r.bloodPressure = <<>>) => cEmergency[1] = FALSE

\* every field on a bound of the default thresholds, classified as normal
C8_BoundaryIsNormal ==
  /\ cThresholds = DEFAULT_THRESHOLDS
  /\ cReading.heartRate = <<100>>
  /\ cReading.oxygenSaturation = <<90>>
  /\ cReading.temperature = <<968>>
  /\ cReading.bloodPressure = <<140, 90>>
  /\ cEmergency = <<FALSE>>

\* C9: calculateVitalsSeverity counts each present metric, 0 included, that
\* lies in the critical band (heart rate < 40 or > 150, oxygen saturation
\* < 85, temperature < 95 or > 104) or else in the warning band (heart rate
\* < 50 or > 120, oxygen saturation < 90, temperature < 96.5 or > 101), and
\* answers critical for two critical metrics, high for one, medium for two
\* warnings and low otherwise.
C9_SeverityCountsEveryPresentMetric ==
  cSeverity # "unset" =>
    LET r == cReading
        crit == { m \in {"hr", "spo2", "temp"} :
                   \/ m = "hr" /\ Len(r.heartRate) = 1 /\
                        (r.heartRate[1] < 40 \/ r.heartRate[1] > 150)
                   \/ m = "spo2" /\ Len(r.oxygenSaturation) = 1 /\
                        r.oxygenSaturation[1] < 85
                   \/ m = "temp" /\ Len(r.temperature) = 1 /\
                        (r.temperature[1] < 950 \/ r.temperature[1] > 1040) }
        warn == { m \in {"hr", "spo2", "temp"} \ crit :
                   \/ m = "hr" /\ Len(r.heartRate) = 1 /\
                        (r.heartRate[1] < 50 \/ r.heartRate[1] > 120)
                   \/ m = "spo2" /\ Len(r.oxygenSaturation) = 1 /\
                        r.oxygenSaturation[1] < 90
                   \/ m = "temp" /\ Len(r.temperature) = 1 /\
                        (r.temperature[1] < 965 \/ r.temperature[1] > 1010) }
    IN  cSeverity = IF Cardinality(crit) >= 2 THEN "critical"
                    ELSE IF Cardinality(crit) = 1 THEN "high"
                    ELSE IF Cardinality(warn) >= 2 THEN "medium"
                    ELSE "low"

\* ------------------------------------------------------------ SOS session
\* C2: however triggerSOS calls interleave, a call that starts while the
\* session is Active returns the "already active" failure at once and writes
\* no alert: every alert of triggerSOS is a manual_sos alert written by
\* one call, and that call started while the session was Idle.
C2_OneAlertPerActiveSession ==
  \A c \in TriggerCalls :
    /\ tcall[c].startedActive =>
         /\ tcall[c].pc = "returned"
         /\ tcall[c].result = "alreadyActive"
         /\ tcall[c].alertId = 0
    /\ tcall[c].alertId # 0 =>
         /\ ~tcall[c].startedActive
         /\ alerts[tcall[c].alertId].type = "manual_sos"
         /\ \A d \in TriggerCalls \ {c} : tcall[d].alertId # tcall[c].alertId

\* one call has written the session's alert and is still notifying, the
\* other call started meanwhile and was turned away
C2_SecondCallRejected ==
  /\ isSOSActive
  /\ Len(alerts) = 1
  /\ \E c1, c2 \in TriggerCalls :
       /\ tcall[c1].pc = "notifyResponders"
       /\ tcall[c1].alertId = currentAlertId
       /\ tcall[c2].pc = "returned"
       /\ tcall[c2].startedActive
       /\ tcall[c2].result = "alreadyActive"

\* C7: once the session's alert is resolved, by the patient's manager or by
\* a responder, the session is Idle again: triggerSOS is never turned away
\* as already active while the alert the session holds is resolved.
C7_ResolveReturnsSessionToIdle ==
  [][ \A c \in TriggerCalls :
        (tcall[c].pc = "idle" /\ tcall'[c].result = "alreadyActive") =>
          ~(currentAlertId # 0 /\ alerts[currentAlertId].status = "resolved") ]_vars

\* ------------------------------------------------------- alert lifecycle
\* C1: of the acknowledge calls that responders make on one existing alert,
\* through either entry point, exactly one succeeds and every other fails
\* with "already acknowledged".
C1_ExactlyOneAcknowledgeSucceeds ==
  \A r1, r2 \in Responders :
    ( /\ r1 # r2
      /\ ack[r1].pc = "returned" /\ ack[r2].pc = "returned"
      /\ ack[r1].alertId = ack[r2].alertId
      /\ ack[r1].result \notin {"NotFound", "failed"}
      /\ ack[r2].result \notin {"NotFound", "failed"} )
    => { ack[r1].result, ack[r2].result } = { "success", "AlreadyAcknowledged" }

\* C6: resolved is terminal: no operation moves a resolved alert to another
\* status.
C6_ResolvedIsTerminal ==
  [][ \A a \in DOMAIN alerts :
        alerts[a].status = "resolved" => alerts'[a].status = "resolved" ]_vars

\* ----------------------------------------------------- ingestion pipeline
\* C3: a persisted reading has at most one alert in the store when it is an
\* emergency and none otherwise, counting the alert of addVitalReading and
\* the alerts of the vitals subscription; once its ingestion has returned
\* and no subscription call is running, an emergency reading has exactly one.
C3_OneAlertPerEmergencyReading ==
  LET AlertsOf(i) == { a \in DOMAIN alerts :
                         alerts[a].vitalReading.id = i \/ alerts[a].vitalData.id = i }
      Expected(i) == IF vitals[i].isEmergency THEN 1 ELSE 0
  IN  /\ ingest.result = "ok" => ingest.docId \in DOMAIN vitals
      /\ \A i \in DOMAIN vitals : Cardinality(AlertsOf(i)) <= Expected(i)
      /\ ( /\ ingest.pc = "returned" /\ ingest.result = "ok"
           /\ \A c \in VitalsCalls : vcall[c].pc \in {"idle", "returned"} )
         => Cardinality(AlertsOf(ingest.docId)) = Expected(ingest.docId)

\* C10: every alert in the store, whatever path wrote it and whatever its
\* severity, has had its responder notification leg entered.
C10_RespondersNotifiedOfEveryAlert ==
  \A a \in DOMAIN alerts : Enter(a, "responder") \in notifications

\* --------------------------------------------------------------- dispatch
\* C4: a dispatch that persisted its alert and had notification legs fail, in
\* any combination, leaves the alert in the store as written, still enters
\* the legs that follow the failed one, and returns the alert's id as a
\* success.
C4_NotificationFailureIsHarmless ==
  /\ \A c \in TriggerCalls :
       LET a == tcall[c].alertId
       IN  a # 0 =>
             /\ a \in DOMAIN alerts
             /\ alerts[a].type = "manual_sos" /\ alerts[a].status = "active"
             /\ Enter(a, "responder") \in notifications
             /\ << "responder", "failed" >> \in tcall[c].settled =>
                  ( HasEmergencyContacts(alerts[a].medicalProfile) =>
                      Enter(a, "contact") \in notifications )
             /\ tcall[c].pc = "returned" =>
                  tcall[c].result = "success" /\ tcall[c].resultAlertId = a
  /\ \A c \in VitalsCalls :
       LET a == vcall[c].alertId
       IN  a # 0 =>
             /\ a \in DOMAIN alerts
             /\ alerts[a].type = "vitals_critical" /\ alerts[a].status = "active"
             /\ << "responder", "failed" >> \in vcall[c].settled =>
                  Enter(a, "family") \in notifications
             /\ vcall[c].pc = "returned" =>
                  /\ vcall[c].result = "success"
                  /\ Enter(a, "family") \in notifications

\* both dispatch paths have returned their alert's id although every
\* notification leg they entered failed
C4_EveryLegFailed ==
  /\ tcall[1].pc = "returned" /\ tcall[1].result = "success"
  /\ tcall[1].settled = { << "responder", "failed" >>, << "contact", "failed" >> }
  /\ \E c \in VitalsCalls :
       /\ vcall[c].pc = "returned" /\ vcall[c].result = "success"
       /\ vcall[c].alertId # 0
       /\ vcall[c].settled = { << "responder", "failed" >>, << "family", "failed" >> }

\* C5: a dispatch whose location gather or profile lookup failed, and whose
\* store was available, persists its alert and succeeds.
C5_EnrichmentFailureNeverFailsDispatch ==
  /\ \A c \in TriggerCalls :
       ( tcall[c].pc = "returned" /\ tcall[c].gatherFailed /\
         tcall[c].error # "unavailable" )
       => tcall[c].result = "success" /\ tcall[c].alertId \in DOMAIN alerts
  /\ \A c \in VitalsCalls :
       ( vcall[c].pc = "returned" /\ vcall[c].gatherFailed /\
         vcall[c].error # "unavailable" )
       => vcall[c].result = "success" /\ vcall[c].alertId \in DOMAIN alerts

\* ------------------------------------------------------ notification legs
\* C11: every alert in the store whose dispatch is no longer notifying,
\* manual SOS as well as vitals-triggered, has had its family notification
\* leg entered.
C11_FamilyNotifiedOfEveryAlert ==
  \A a \in DOMAIN alerts :
    ( /\ \A c \in TriggerCalls : tcall[c].alertId = a => tcall[c].pc = "returned"
      /\ \A c \in VitalsCalls : vcall[c].alertId = a => vcall[c].pc = "returned" )
    => Enter(a, "family") \in notifications

\* C12: the emergency-contact leg is entered for an alert only if the
\* medical profile gathered for it holds at least one emergency contact:
\* never without a profile, never with an empty contact list.
C12_ContactsNotifiedOnlyIfAny ==
  \A a \in DOMAIN alerts :
    Enter(a, "contact") \in notifications => alerts[a].medicalProfile = "contacts"

\* C13: a triggerSOS turned away because the session is active returns the
\* id of the existing alert, also when the call that made the session
\* active has not persisted its alert yet.
C13_RejectionCarriesAlertId ==
  \A c \in TriggerCalls :
    tcall[c].result = "alreadyActive" =>
      /\ tcall[c].resultAlertId # 0
      /\ tcall[c].resultAlertId \in DOMAIN alerts

\* -------------------------------------------------------------- cancelSOS
\* C14: a cancelSOS call made while the session is Idle returns false and
\* leaves the session flag, the current alert id, every alert in the store
\* and the notifications as they were.
C14_IdleCancelChangesNothing ==
  [][ ( /\ ~isSOSActive
        /\ ccall.pc \in {"idle", "returned"}
        /\ ccall' # ccall )
      => /\ ccall'.pc = "returned"
         /\ ccall'.result = "false"
         /\ UNCHANGED << isSOSActive, currentAlertId, alerts, notifications >> ]_vars

\* cancelSOS has returned false on a session that was never active
C14_CancelledNothing ==
  /\ \A c \in TriggerCalls : tcall[c].pc = "idle"
  /\ ~isSOSActive /\ currentAlertId = 0
  /\ ccall.pc = "returned" /\ ccall.result = "false" /\ ccall.alertId = 0
  /\ alerts = << >> /\ notifications = {}

\* C15: when the store update of a cancelSOS call succeeds, the alert the
\* session held when the call was made is resolved with the reason, or the
\* default cancellation text, as its message, and the session is Idle with
\* no current alert id.
C15_CancelResolvesAndClears ==
  [][ (ccall.pc = "updateDoc" /\ ccall'.pc = "notify")
      => /\ alerts'[ccall.alertId].status = "resolved"
         /\ alerts'[ccall.alertId].message =
              (IF ccall.reason = "" THEN "SOS cancelled by patient" ELSE ccall.reason)
         /\ \A a \in DOMAIN alerts \ {ccall.alertId} : alerts'[a] = alerts[a]
         /\ isSOSActive' = FALSE
         /\ currentAlertId' = 0 ]_vars

\* a cancellation without a reason went through
C15_CancelledWithDefaultText ==
  /\ ccall.pc = "returned" /\ ccall.result = "true" /\ ccall.reason = ""
  /\ alerts[ccall.alertId].status = "resolved"
  /\ alerts[ccall.alertId].message = "SOS cancelled by patient"
  /\ ~isSOSActive /\ currentAlertId = 0

\* ----------------------------------------------------- ingestion pipeline
\* C16: ingesting a reading without a patient reference fails and has no
\* effect: no reading and no alert without a patient is ever in the store,
\* and such an ingestion never returns a reading id.
C16_NoPatientNoEffect ==
  /\ \A i \in DOMAIN vitals : vitals[i].patientId = "P1"
  /\ \A a \in DOMAIN alerts : alerts[a].patientId = "P1"
  /\ (ingest.pc = "returned" /\ ingest.patientId # "P1") => ingest.result # "ok"

\* C17: every alert created for an ingested emergency reading, by
\* addVitalReading or by the vitals subscription, has type vitals_critical and
\* status active and carries that reading.
C17_VitalsAlertShape ==
  \A a \in DOMAIN alerts :
    LET v == IF alerts[a].vitalReading.id # 0 THEN alerts[a].vitalReading
             ELSE alerts[a].vitalData
    IN  /\ alerts[a].type = "vitals_critical"
        /\ alerts[a].status = "active"
        /\ v.id \in DOMAIN vitals
        /\ v.reading = vitals[v.id].reading
        /\ v.isEmergency

\* ------------------------------------------------------- alert lifecycle
\* C18: an acknowledge or resolve call on an alert id that is not in the
\* store reports NotFound, an outcome of its own, and not the failure that
\* any other error gives.
C18_UnknownAlertIsNotFound ==
  /\ \A r \in Responders :
       (ack[r].pc = "returned" /\ ~Exists(ack[r].alertId))
       => ack[r].result = "NotFound"
  /\ (rcall.alertId # 0 /\ ~Exists(rcall.alertId)) => rcall.result = "NotFound"

\* C19: the status of an alert never moves backwards along
\* active < acknowledged < responding < resolved.
C19_StatusNeverRegresses ==
  [][ LET Rank(status) == CASE status = "active"       -> 0
                            [] status = "acknowledged" -> 1
                            [] status = "responding"   -> 2
                            [] status = "resolved"     -> 3
      IN  \A a \in DOMAIN alerts :
            Rank(alerts'[a].status) >= Rank(alerts[a].status) ]_vars

\* ------------------------------------------------- recovery after a restart
\* C20: the store never holds two active manual_sos alerts of the patient,
\* also when the patient's client was restarted while one was active: the
\* new manager finds the active alert and rejects triggerSOS.
C20_OneActiveManualAlertAcrossRestart ==
  Cardinality({ a \in DOMAIN alerts : /\ alerts[a].type = "manual_sos"
                                      /\ alerts[a].status = "active" }) <= 1

\* ------------------------------------------------ progress of a dispatch
\* C21: once its alert is persisted, a triggerSOS or triggerVitalsAlert call
\* returns to its caller, whether or not a notification leg ever completes.
C21_ReturnsOncePersisted ==
  /\ (tcall[1].pc \in {"notifyResponders", "notifyContacts"})
       ~> (tcall[1].pc = "returned")
  /\ \A c \in VitalsCalls :
       (vcall[c].pc \in {"notifyResponders", "notifyFamily"})
         ~> (vcall[c].pc = "returned")

\* C22: a dispatch leaves its enrichment gathers and reaches the write of the
\* alert, whether or not the medical-profile lookup ever answers.
C22_GathersAreBounded ==
  /\ (tcall[1].pc \in {"location", "profile"}) ~> (tcall[1].pc = "addDoc")
  /\ \A c \in VitalsCalls :
       (vcall[c].pc \in {"location", "profile"}) ~> (vcall[c].pc = "addDoc")

\* C23: once acknowledgedBy of an alert names a responder, no later step
\* changes it: the first acknowledger stays.
C23_FirstAcknowledgerStays ==
  [][ \A a \in DOMAIN alerts :
        alerts[a].acknowledgedBy # "none"
        => alerts'[a].acknowledgedBy = alerts[a].acknowledgedBy ]_vars

\* ------------------------------------------------- failure of persistence
\* C24: when the write of the alert fails in triggerSOS, the call returns a
\* failure with an empty alert id, the store and the notifications are as
\* before, and the session is Idle with no current alert id, so that the
\* guard of a later triggerSOS passes.
C24_PersistFailureLeavesIdle ==
  [][ \A c \in TriggerCalls :
        (tcall[c].pc = "addDoc" /\ tcall'[c].pc = "returned"
           /\ tcall'[c].error # "none")
        => /\ tcall'[c].result = "failed"
           /\ tcall'[c].resultAlertId = 0
           /\ tcall'[c].alertId = 0
           /\ alerts' = alerts
           /\ notifications' = notifications
           /\ isSOSActive' = FALSE
           /\ currentAlertId' = 0 ]_vars

\* a call failed at the write and a later call was accepted and persisted
C24_AcceptedAfterFailure ==
  /\ tcall[1].result = "failed"
  /\ tcall[1].error = "unavailable"
  /\ tcall[2].result = "success"
  /\ ~tcall[2].startedActive
  /\ Len(alerts) = 1

\* ------------------------------------------ the session at a call's return
\* C25: at the moment triggerSOS returns success with alert id a, the session
\* is Active and the manager's current alert id is a.
C25_SuccessMeansActive ==
  [][ \A c \in TriggerCalls :
        (tcall[c].pc # "returned" /\ tcall'[c].pc = "returned"
           /\ tcall'[c].result = "success")
        => /\ isSOSActive'
           /\ currentAlertId' = tcall'[c].resultAlertId ]_vars

\* C26: a cancelSOS call that returned false has changed nothing: the alert
\* it was called for does not carry the resolution the call writes (told by
\* the cancellation message), also when the cancellation notification failed.
C26_FailedCancelChangedNothing ==
  (ccall.pc = "returned" /\ ccall.result = "false" /\ ccall.alertId # 0)
  => ~( /\ alerts[ccall.alertId].status = "resolved"
        /\ alerts[ccall.alertId].message = CancellationMessage(ccall.reason) )

\* ------------------------------------------------ the dashboard's SOS flag
\* C27: whenever no SOS operation is in progress, the isSOSActive state that
\* VitalsProvider gives the dashboard equals the manager's own flag.
C27_ProviderFlagFollowsManager ==
  ( /\ \A c \in TriggerCalls : tcall[c].pc \in {"idle", "returned"}
    /\ ccall.pc \in {"idle", "returned"} )
  => uiSOSActive = isSOSActive

\* ---------------------------------------------------- failure of ingestion
\* C28: an addVitalReading call that threw has persisted nothing: the store
\* holds no reading record and no alert record written by it.
C28_FailedIngestPersistedNothing ==
  (ingest.pc = "returned" /\ ingest.result = "throws")
  => /\ \A i \in DOMAIN vitals : vitals[i].id # ingest.docId
     /\ \A a \in DOMAIN alerts : alerts[a].vitalReading.id # ingest.docId

\* ------------------------------------------------------ manual disconnect
\* C29: once disconnectDevice(d) has completed, no reconnection timer exists
\* for d and d is not connected again by the manager.
C29_ManualDisconnectIsFinal ==
  \A d \in Devices :
    ble[d].phase = "disconnected"
    => /\ ~ble[d].timer
       /\ ~ble[d].mapped
       /\ ~ble[d].gatt

\* ------------------------------------------ the two classifiers together
\* C30: with the default thresholds, a reading whose severity is medium, high
\* or critical is an emergency for checkVitalThresholds.
C30_SeverityImpliesEmergency ==
  ( /\ cThresholds = DEFAULT_THRESHOLDS
    /\ cSeverity \in {"medium", "high", "critical"}
    /\ IsDefined(cEmergency) )
  => Val(cEmergency) = TRUE

\* a reading with two metrics in the warning band, classified by both
C30_MediumIsEmergency ==
  /\ cThresholds = DEFAULT_THRESHOLDS
  /\ cSeverity = "medium"
  /\ cEmergency = Def(TRUE)
  /\ HeartRateBand(cReading) = "warning"
  /\ OxygenBand(cReading) = "warning"
====
